---------------------------- MODULE Spec2Model ----------------------------
(***************************************************************************)
(* Model of src/credo/match.py: the pipeline of main(), that is            *)
(* load_credo_json -> find_currency_transfers -> match_transactions.       *)
(*                                                                         *)
(* Representation                                                          *)
(*  - A nullable cell (None / NaN / NaT of pandas) is a sequence: <<>> is  *)
(*    the missing value and <<v>> holds v.                                 *)
(*  - Amounts are integers counted in hundredths (9950 is 99.5), so the    *)
(*    0.01 of match_quality is one unit.  Products and quotients are exact *)
(*    rationals; binary floating-point rounding is not modelled.           *)
(*  - A timestamp is a number of ticks, TicksPerDay ticks to the day, tick *)
(*    0 of a day being midnight.                                           *)
(*  - A column header is a string; the substring tests of the code         *)
(*    ('income' in col.lower()) are looked up in the table Keywords.       *)
(*  - stmtEntryId and amountEquivalent are copied through untouched by the *)
(*    code and read by no condition; they are left out of the rows.        *)
(***************************************************************************)
EXTENDS Integers, Sequences, FiniteSets, TLC

VARIABLES
    pc,               \* position in main(): "loaded", "transfers", "done", "exit"
    zen_columns,      \* zen_df.columns, in declaration order
    zen_rows,         \* the rows of zen_df, each a sequence of cells
    credo_df,         \* the rows of credo_df (with the derived amount)
    date_tolerance,   \* args.tolerance
    amount_tolerance, \* args.amount_tolerance, a rational [num, den]
    transfers_df,     \* the rows returned by find_currency_transfers
    result_df         \* the rows returned by match_transactions

vars == <<pc, zen_columns, zen_rows, credo_df, date_tolerance,
          amount_tolerance, transfers_df, result_df>>

-----------------------------------------------------------------------------
(* Bounds of the model *)

MaxCredo == 3

TicksPerDay == 2

MaxTolerance == 1

MaxCols == 2

MaxZen == 2

-----------------------------------------------------------------------------
(* Nullable cells and exact arithmetic *)

Null == <<>>

Some(v) == <<v>>

isna(x) == x = <<>>

notnull(x) == x # <<>>

fillna0(x) == IF x = <<>> THEN 0 ELSE x[1]

Abs(n) == IF n < 0 THEN -n ELSE n

RECURSIVE Gcd(_, _)
Gcd(a, b) == IF b = 0 THEN a ELSE Gcd(b, a % b)

\* credit / debit on numpy float64 scalars: x/0 is inf (nan for 0/0), with a
\* warning and no exception; otherwise the quotient, kept in lowest terms.
TrueDivide(c, d) ==
    IF d = 0
    THEN IF c = 0 THEN [kind |-> "nan"] ELSE [kind |-> "inf"]
    ELSE LET g == Gcd(Abs(c), Abs(d))
         IN  [kind |-> "finite", num |-> c \div g, den |-> d \div g]

RECURSIVE Flatten(_)
Flatten(ss) == IF ss = <<>> THEN <<>> ELSE Head(ss) \o Flatten(Tail(ss))

\* The elements of a finite set of integers, in increasing order.
RECURSIVE Ascending(_)
Ascending(S) ==
    IF S = {} THEN <<>>
    ELSE LET m == CHOOSE x \in S : \A y \in S : x <= y
         IN  <<m>> \o Ascending(S \ {m})

\* Exact rationals num/den with den > 0.
Rat(n, d) == [num |-> n, den |-> d]

RatLe(x, y) == x.num * y.den <= y.num * x.den

-----------------------------------------------------------------------------
(* load_credo_json *)

ExchangeMarker == "Currency exchange"

\* df['amount'] = df['credit'].fillna(0) - df['debit'].fillna(0)
SignedAmount(tx) == fillna0(tx.credit) - fillna0(tx.debit)

load_credo_json(data) ==
    [i \in 1..Len(data) |->
        [accountNumber     |-> data[i].accountNumber,
         operationDateTime |-> data[i].operationDateTime,
         transactionId     |-> data[i].transactionId,
         description       |-> data[i].description,
         currency          |-> data[i].currency,
         debit             |-> data[i].debit,
         credit            |-> data[i].credit,
         amount            |-> SignedAmount(data[i])]]

-----------------------------------------------------------------------------
(* find_currency_transfers *)

\* credo_df[credo_df['description'] == 'Currency exchange']
CurrencyExchanges(df) == SelectSeq(df, LAMBDA tx : tx.description = ExchangeMarker)

\* The keys of groupby(['accountNumber', 'operationDateTime']): rows whose key
\* holds a missing value are dropped by groupby (dropna=True).
GroupKeys(rows) ==
    {<<rows[i].accountNumber, rows[i].operationDateTime[1]>> :
        i \in {j \in 1..Len(rows) : notnull(rows[j].operationDateTime)}}

KeyLess(k1, k2) == k1[1] < k2[1] \/ (k1[1] = k2[1] /\ k1[2] < k2[2])

\* groupby iterates its groups in sorted key order (sort=True).
RECURSIVE SortedKeys(_)
SortedKeys(K) ==
    IF K = {} THEN <<>>
    ELSE LET m == CHOOSE k \in K : \A o \in K \ {k} : KeyLess(k, o)
         IN  <<m>> \o SortedKeys(K \ {m})

Group(rows, key) ==
    SelectSeq(rows, LAMBDA tx : /\ notnull(tx.operationDateTime)
                                /\ tx.accountNumber = key[1]
                                /\ tx.operationDateTime[1] = key[2])

DebitTx(group) == SelectSeq(group, LAMBDA tx : notnull(tx.debit))

CreditTx(group) == SelectSeq(group, LAMBDA tx : notnull(tx.credit))

TransferPair(key, debit_row, credit_row) ==
    [account_number      |-> key[1],
     operation_date_time |-> key[2],
     from_currency       |-> debit_row.currency,
     to_currency         |-> credit_row.currency,
     from_amount         |-> debit_row.debit[1],
     to_amount           |-> credit_row.credit[1],
     from_transaction_id |-> debit_row.transactionId,
     to_transaction_id   |-> credit_row.transactionId,
     exchange_rate       |-> TrueDivide(credit_row.credit[1], debit_row.debit[1])]

\* GroupPairs without the test that the group has exactly 2 transactions.
GroupPairsAnySize(rows, key) ==
    LET group == Group(rows, key)
    IN  IF Len(DebitTx(group)) = 1 /\ Len(CreditTx(group)) = 1
        THEN <<TransferPair(key, DebitTx(group)[1], CreditTx(group)[1])>>
        ELSE <<>>

\* The body of the loop over the groups: the pairs (none or one) of one group.
GroupPairs(rows, key) ==
    LET group == Group(rows, key)
    IN  IF Len(group) = 2
           /\ Len(DebitTx(group)) = 1
           /\ Len(CreditTx(group)) = 1
        THEN <<TransferPair(key, DebitTx(group)[1], CreditTx(group)[1])>>
        ELSE <<>>

find_currency_transfers(df) ==
    LET currency_exchanges == CurrencyExchanges(df)
        keys == SortedKeys(GroupKeys(currency_exchanges))
    IN  IF Len(currency_exchanges) = 0
        THEN <<>>
        ELSE Flatten([k \in 1..Len(keys) |-> GroupPairs(currency_exchanges, keys[k])])

-----------------------------------------------------------------------------
(* match_transactions: the columns *)

\* The keywords each header of the model contains, lower-cased: the table the
\* tests  'date' in col.lower()  and the like are read from.
Keywords(col) ==
    CASE col = "date"                     -> {"date"}
      [] col = "income"                   -> {"income"}
      [] col = "outcome"                  -> {"outcome"}
      [] col = "amount"                   -> {"amount"}
      [] col = "sum"                      -> {"sum"}
      [] col = "incomeCurrencyShortTitle" -> {"income", "currency"}
      [] col = "comment"                  -> {}

Contains(col, kw) == kw \in Keywords(col)

\* Columns are named by their position in zen_df.columns.
date_columns(cols) ==
    Ascending({i \in 1..Len(cols) : Contains(cols[i], "date")})

\* income_columns without the exclusion of the currency columns.
income_columns_any(cols) ==
    Ascending({i \in 1..Len(cols) : Contains(cols[i], "income")})

income_columns(cols) ==
    Ascending({i \in 1..Len(cols) :
        Contains(cols[i], "income") /\ ~Contains(cols[i], "currency")})

outcome_columns(cols) ==
    Ascending({i \in 1..Len(cols) :
        Contains(cols[i], "outcome") /\ ~Contains(cols[i], "currency")})

generic_columns(cols) ==
    Ascending({i \in 1..Len(cols) :
        Contains(cols[i], "amount") \/ Contains(cols[i], "sum")})

\* amount_columns with the income and outcome columns as declared, not the
\* income columns first.
amount_columns_declared(cols) ==
    IF income_columns(cols) \o outcome_columns(cols) # <<>>
    THEN Ascending({i \in 1..Len(cols) :
             \E n \in 1..Len(income_columns(cols) \o outcome_columns(cols)) :
                 (income_columns(cols) \o outcome_columns(cols))[n] = i})
    ELSE generic_columns(cols)

amount_columns(cols) ==
    IF income_columns(cols) \o outcome_columns(cols) # <<>>
    THEN income_columns(cols) \o outcome_columns(cols)
    ELSE generic_columns(cols)

-----------------------------------------------------------------------------
(* match_transactions: one amount slot *)

\* SkipAmount without the test for zero.
SkipAmountNaOnly(cell) == isna(cell)

\* if pd.isna(zen_amount) or zen_amount == 0: continue
SkipAmount(cell) == isna(cell) \/ cell[1] = 0

\* if 'outcome' in amount_col.lower(): zen_amount = -abs(zen_amount)
AdjustSign(col, raw) == IF Contains(col, "outcome") THEN -Abs(raw) ELSE raw

date_min(zen_date, tolerance) == zen_date - tolerance * TicksPerDay

date_max(zen_date, tolerance) == zen_date + tolerance * TicksPerDay

\* A comparison with NaT is False.
DateMatch(tx, zen_date, tolerance) ==
    /\ notnull(tx.operationDateTime)
    /\ tx.operationDateTime[1] >= date_min(zen_date, tolerance)
    /\ tx.operationDateTime[1] <= date_max(zen_date, tolerance)

amount_min(zen_amount, r) == Rat(zen_amount * (r.den - r.num), r.den)

amount_max(zen_amount, r) == Rat(zen_amount * (r.den + r.num), r.den)

AmountMatch(tx, zen_amount, r) ==
    /\ RatLe(amount_min(zen_amount, r), Rat(tx.amount, 1))
    /\ RatLe(Rat(tx.amount, 1), amount_max(zen_amount, r))

Matches(df, zen_date, zen_amount, tolerance, r) ==
    SelectSeq(SelectSeq(df, LAMBDA tx : DateMatch(tx, zen_date, tolerance)),
              LAMBDA tx : AmountMatch(tx, zen_amount, r))

\* 'exact' if abs(zen_amount - credo_row['amount']) < 0.01 else 'approximate'
MatchQuality(zen_amount, credo_amount) ==
    IF Abs(zen_amount - credo_amount) < 1 THEN "exact" ELSE "approximate"

NoTransfer ==
    [is_currency_transfer         |-> FALSE,
     transfer_type                |-> Null,
     transfer_pair_currency       |-> Null,
     transfer_pair_amount         |-> Null,
     transfer_pair_transaction_id |-> Null,
     exchange_rate                |-> Null]

\* The transfer lookup of one candidate; the keys a non-transfer row lacks are
\* the missing value, as in the DataFrame built from the rows.
TransferInfo(transfers, txid) ==
    LET transfer_from == SelectSeq(transfers, LAMBDA p : p.from_transaction_id = txid)
        transfer_to   == SelectSeq(transfers, LAMBDA p : p.to_transaction_id = txid)
    IN  IF transfers = <<>> THEN NoTransfer
        ELSE IF transfer_from # <<>>
        THEN [is_currency_transfer         |-> TRUE,
              transfer_type                |-> Some("from"),
              transfer_pair_currency       |-> Some(transfer_from[1].to_currency),
              transfer_pair_amount         |-> Some(transfer_from[1].to_amount),
              transfer_pair_transaction_id |-> Some(transfer_from[1].to_transaction_id),
              exchange_rate                |-> Some(transfer_from[1].exchange_rate)]
        ELSE IF transfer_to # <<>>
        THEN [is_currency_transfer         |-> TRUE,
              transfer_type                |-> Some("to"),
              transfer_pair_currency       |-> Some(transfer_to[1].from_currency),
              transfer_pair_amount         |-> Some(transfer_to[1].from_amount),
              transfer_pair_transaction_id |-> Some(transfer_to[1].from_transaction_id),
              exchange_rate                |-> Some(transfer_to[1].exchange_rate)]
        ELSE NoTransfer

\* One row of the result.  zen_row stands for the zen_<col> copies of every
\* column of the external row.
MatchRecord(zen_row, zen_date, zen_amount, amount_col, tx, transfers) ==
    [zen_date             |-> zen_date,
     zen_amount           |-> zen_amount,
     zen_amount_column    |-> amount_col,
     credo_date           |-> tx.operationDateTime,
     credo_amount         |-> tx.amount,
     credo_description    |-> tx.description,
     credo_currency       |-> tx.currency,
     credo_transaction_id |-> tx.transactionId,
     match_quality        |-> MatchQuality(zen_amount, tx.amount),
     transfer             |-> TransferInfo(transfers, tx.transactionId),
     zen_row              |-> zen_row]

\* The body of the loop over amount_columns, for column number c of cols.
SlotRecords(cols, zen_row, c, df, transfers, tolerance, r) ==
    IF SkipAmount(zen_row[c]) THEN <<>>
    ELSE LET zen_date   == zen_row[date_columns(cols)[1]][1]
             zen_amount == AdjustSign(cols[c], zen_row[c][1])
             matches    == Matches(df, zen_date, zen_amount, tolerance, r)
         IN  [k \in 1..Len(matches) |->
                 MatchRecord(zen_row, zen_date, zen_amount, cols[c],
                             matches[k], transfers)]

\* The body of the loop over zen_df.iterrows().
RowRecords(cols, zen_row, df, transfers, tolerance, r) ==
    IF isna(zen_row[date_columns(cols)[1]]) THEN <<>>
    ELSE LET slots == amount_columns(cols)
         IN  Flatten([s \in 1..Len(slots) |->
                 SlotRecords(cols, zen_row, slots[s], df, transfers, tolerance, r)])

\* status "exit" is sys.exit(1); "ok" is a returned DataFrame, empty or not.
match_transactions(cols, rows, df, transfers, tolerance, r) ==
    IF date_columns(cols) = <<>> THEN [status |-> "exit", result |-> <<>>]
    ELSE IF amount_columns(cols) = <<>> THEN [status |-> "exit", result |-> <<>>]
    ELSE [status |-> "ok",
          result |-> Flatten([i \in 1..Len(rows) |->
                        RowRecords(cols, rows[i], df, transfers, tolerance, r)])]

-----------------------------------------------------------------------------
(* main: the steps after the two loads *)

FindCurrencyTransfers ==
    /\ pc = "loaded"
    /\ transfers_df' = find_currency_transfers(credo_df)
    /\ pc' = "transfers"
    /\ UNCHANGED <<zen_columns, zen_rows, credo_df, date_tolerance,
                   amount_tolerance, result_df>>

MatchTransactions ==
    /\ pc = "transfers"
    /\ LET m == match_transactions(zen_columns, zen_rows, credo_df, transfers_df,
                                   date_tolerance, amount_tolerance)
       IN  /\ result_df' = m.result
           /\ pc' = IF m.status = "exit" THEN "exit" ELSE "done"
    /\ UNCHANGED <<zen_columns, zen_rows, credo_df, date_tolerance,
                   amount_tolerance, transfers_df>>

Next == FindCurrencyTransfers \/ MatchTransactions

-----------------------------------------------------------------------------
(* Inputs *)

\* The sequences of length at most n over S.
SeqsUpTo(S, n) == UNION {[1..k -> S] : k \in 0..n}

\* The rows of a bank export: transactionId is the row's number, so the ids of
\* a feed are unique.
WithIds(txs) ==
    [i \in 1..Len(txs) |->
        [accountNumber     |-> txs[i].accountNumber,
         operationDateTime |-> txs[i].operationDateTime,
         transactionId     |-> i,
         description       |-> txs[i].description,
         currency          |-> txs[i].currency,
         debit             |-> txs[i].debit,
         credit            |-> txs[i].credit]]

DefaultTolerance == Rat(1, 100)

\* Exchange-marked rows: every combination of a missing, zero or positive
\* debit with a missing or positive credit, on two accounts, at a parseable
\* or unparseable time; and two ordinary payments.
ExchangeRows ==
    {[accountNumber     |-> k[1],
      operationDateTime |-> k[2],
      description       |-> ExchangeMarker,
      currency          |-> IF notnull(l[1]) THEN "USD" ELSE "EUR",
      debit             |-> l[1],
      credit            |-> l[2]] :
        k \in {<<1, Some(0)>>, <<2, Some(0)>>, <<1, Some(1)>>, <<1, Null>>},
        l \in {Null, Some(0), Some(10000)} \X {Null, Some(9000)}}

PaymentRows ==
    {[accountNumber     |-> 1,
      operationDateTime |-> Some(0),
      description       |-> "Payment",
      currency          |-> "USD",
      debit             |-> l[1],
      credit            |-> l[2]] :
        l \in {<<Some(10000), Null>>, <<Null, Some(9000)>>}}

InitTransfers ==
    /\ pc = "loaded"
    /\ zen_columns = <<"date", "income">>
    /\ zen_rows = <<>>
    /\ \E txs \in SeqsUpTo(ExchangeRows \cup PaymentRows, MaxCredo) :
           credo_df = load_credo_json(WithIds(txs))
    /\ date_tolerance = 1
    /\ amount_tolerance = DefaultTolerance
    /\ transfers_df = <<>>
    /\ result_df = <<>>

SpecTransfers == InitTransfers /\ [][Next]_vars

\* The cells a column of the external ledger can hold: a date column a
\* midnight timestamp or NaT, a numeric column a number or NaN, a text
\* column nothing that the matcher reads.
CellValues(col, dates, amounts) ==
    IF Contains(col, "date") THEN dates
    ELSE IF Contains(col, "currency") \/ Keywords(col) = {} THEN {Null}
    ELSE amounts

RowsFor(cols, dates, amounts) ==
    {row \in [1..Len(cols) -> dates \cup amounts \cup {Null}] :
        \A i \in 1..Len(cols) : row[i] \in CellValues(cols[i], dates, amounts)}

Distinct(s) == \A i, j \in 1..Len(s) : i # j => s[i] # s[j]

Payment(time, debit, credit) ==
    [accountNumber     |-> 1,
     operationDateTime |-> time,
     description       |-> "Payment",
     currency          |-> "USD",
     debit             |-> debit,
     credit            |-> credit]

Tolerances == {Rat(0, 1), DefaultTolerance}

\* The day of the external row in the window runs: far enough from day 0 for
\* the day before the window to exist.
ZenDay == MaxTolerance + 1

WindowAmounts == {9899, 9900, 9950, 10000, 10100, 10101}

\* One external row of one amount column against one bank payment: every
\* label, both signs of the raw value, every time of day around the window
\* and amounts at, inside and just outside the tolerance band.
InitWindow ==
    /\ pc = "loaded"
    /\ \E col \in {"income", "outcome", "amount"} : zen_columns = <<"date", col>>
    /\ \E raw \in {9950, -9950, 10000, -10000} :
           zen_rows = << <<Some(ZenDay * TicksPerDay), Some(raw)>> >>
    /\ \E t \in 0..((2 * MaxTolerance + 3) * TicksPerDay - 1), v \in WindowAmounts,
          side \in {"debit", "credit"} :
           credo_df = load_credo_json(WithIds(
               << Payment(Some(t),
                          IF side = "debit" THEN Some(v) ELSE Null,
                          IF side = "credit" THEN Some(v) ELSE Null) >>))
    /\ date_tolerance \in 0..MaxTolerance
    /\ amount_tolerance \in Tolerances
    /\ transfers_df = <<>>
    /\ result_df = <<>>

SpecWindow == InitWindow /\ [][Next]_vars

HeaderPool ==
    {"date", "income", "outcome", "amount", "sum", "incomeCurrencyShortTitle",
     "comment"}

\* Every layout of at most MaxCols distinct headers, with no row or one.
InitColumns ==
    /\ pc = "loaded"
    /\ zen_columns \in {cols \in SeqsUpTo(HeaderPool, MaxCols) : Distinct(cols)}
    /\ zen_rows \in SeqsUpTo(RowsFor(zen_columns, {Null, Some(0)},
                                      {Null, Some(0), Some(9000)}), 1)
    /\ credo_df = load_credo_json(WithIds(<< Payment(Some(0), Null, Some(9000)) >>))
    /\ date_tolerance = 1
    /\ amount_tolerance = DefaultTolerance
    /\ transfers_df = <<>>
    /\ result_df = <<>>

SpecColumns == InitColumns /\ [][Next]_vars

\* A row without a date is skipped before its amounts are read: one such row
\* stands for all of them.
RowsOfRun(cols) ==
    {row \in RowsFor(cols, {Null, Some(0)}, {Null, Some(0), Some(5000)}) :
        row[1] = Null => (row[2] = Some(5000) /\ row[3] = Some(5000))}

\* At most MaxZen external rows of two amount columns, declared in either
\* order, against two bank payments that may be equal, opposite, of amount 0 or
\* undated.
InitRows ==
    /\ pc = "loaded"
    /\ \E a, b \in {"income", "outcome", "amount"} :
           a # b /\ zen_columns = <<"date", a, b>>
    /\ zen_rows \in SeqsUpTo(RowsOfRun(zen_columns), MaxZen)
    /\ \E txs \in [1..2 -> {Payment(Some(0), Null, Some(5000)),
                             Payment(Some(0), Some(5000), Null),
                             Payment(Some(0), Some(0), Null),
                             Payment(Null, Null, Some(5000))}] :
           credo_df = load_credo_json(WithIds(txs))
    /\ date_tolerance = 1
    /\ amount_tolerance \in Tolerances
    /\ transfers_df = <<>>
    /\ result_df = <<>>

SpecRows == InitRows /\ [][Next]_vars

\* One external row with an income and an outcome against a feed of at most
\* two rows, exchange-marked or not.
InitAnnotation ==
    /\ pc = "loaded"
    /\ zen_columns = <<"date", "income", "outcome">>
    /\ \E x \in {Null, Some(9000)}, y \in {Null, Some(10000)} :
           zen_rows = << <<Some(0), x, y>> >>
    /\ \E txs \in SeqsUpTo(ExchangeRows \cup PaymentRows, 2) :
           credo_df = load_credo_json(WithIds(txs))
    /\ date_tolerance = 1
    /\ amount_tolerance \in Tolerances
    /\ transfers_df = <<>>
    /\ result_df = <<>>

SpecAnnotation == InitAnnotation /\ [][Next]_vars

\* Every input family above.
Init == InitTransfers \/ InitWindow \/ InitColumns \/ InitRows \/ InitAnnotation

Spec == Init /\ [][Next]_vars

-----------------------------------------------------------------------------
(* Claims about find_currency_transfers *)

Range(s) == {s[i] : i \in 1..Len(s)}

TransfersFound == pc # "loaded"

\* The exchange-marked rows of the feed at account a and time t.
Members(a, t) ==
    {i \in 1..Len(credo_df) :
        /\ credo_df[i].description = "Currency exchange"
        /\ credo_df[i].accountNumber = a
        /\ credo_df[i].operationDateTime = <<t>>}

Debits(M) == {i \in M : credo_df[i].debit # <<>>}

Credits(M) == {i \in M : credo_df[i].credit # <<>>}

Qualifies(M) ==
    Cardinality(M) = 2 /\ Cardinality(Debits(M)) = 1 /\ Cardinality(Credits(M)) = 1

FeedKeys ==
    {<<credo_df[i].accountNumber, credo_df[i].operationDateTime[1]>> :
        i \in {j \in 1..Len(credo_df) : credo_df[j].operationDateTime # <<>>}}

PairsAt(k) ==
    {n \in 1..Len(transfers_df) :
        /\ transfers_df[n].account_number = k[1]
        /\ transfers_df[n].operation_date_time = k[2]}

\* C4 (as stated): in every returned pair the two ids differ, and no
\* transaction id occurs in two pairs, as from or as to.
TransferExclusivity ==
    TransfersFound =>
        /\ \A p \in Range(transfers_df) : p.from_transaction_id # p.to_transaction_id
        /\ \A m, n \in 1..Len(transfers_df) :
              m # n =>
                {transfers_df[m].from_transaction_id, transfers_df[m].to_transaction_id}
                \cap
                {transfers_df[n].from_transaction_id, transfers_df[n].to_transaction_id}
                = {}

ZeroDebitRateIsNaN ==
    TransfersFound =>
        \A k \in FeedKeys :
            LET M == Members(k[1], k[2])
            IN  (/\ Qualifies(M)
                 /\ Debits(M) \cap Credits(M) = {}
                 /\ \E i \in Debits(M) : credo_df[i].debit = <<0>>) =>
                    \E p \in Range(transfers_df) :
                        /\ Debits(M) = {p.from_transaction_id}
                        /\ Credits(M) = {p.to_transaction_id}
                        /\ p.exchange_rate = [kind |-> "nan"]

-----------------------------------------------------------------------------
(* Claims about match_transactions *)

Matched == pc = "done"

Min(x, y) == IF x <= y THEN x ELSE y

Max(x, y) == IF x <= y THEN y ELSE x

Slots == Range(amount_columns(zen_columns))

FirstDate == date_columns(zen_columns)[1]

\* Row i has a date and its cell in column c holds a non-zero number.
Live(i, c) ==
    /\ zen_rows[i][FirstDate] # <<>>
    /\ zen_rows[i][c] # <<>>
    /\ zen_rows[i][c] # <<0>>

\* The signed amount of slot (i, c): an outcome is negative.
Signed(i, c) ==
    IF "outcome" \in Keywords(zen_columns[c])
    THEN -Abs(zen_rows[i][c][1]) ELSE zen_rows[i][c][1]

\* The result holds a record of slot (i, c) against bank transaction b.
RecordIs(rec, i, c, b) ==
    /\ rec.zen_row = zen_rows[i]
    /\ rec.zen_amount_column = zen_columns[c]
    /\ rec.credo_transaction_id = credo_df[b].transactionId

HasRecord(i, c, b) == \E k \in 1..Len(result_df) : RecordIs(result_df[k], i, c, b)

Candidates ==
    {t \in (1..Len(zen_rows)) \X Slots \X (1..Len(credo_df)) : Live(t[1], t[2])}

\* C1 (as stated): the amount window of a slot of signed amount a is
\* [min(a(1-r), a(1+r)), max(a(1-r), a(1+r))], bounds included: a bank
\* transaction that passes the date filter yields a record exactly when its
\* signed amount lies in it.
AmountWindowOrdered ==
    Matched =>
        \A t \in Candidates :
            LET a  == Signed(t[1], t[2])
                r  == amount_tolerance
                lo == Min(a * (r.den - r.num), a * (r.den + r.num))
                hi == Max(a * (r.den - r.num), a * (r.den + r.num))
                v  == credo_df[t[3]].amount * r.den
            IN  DateMatch(credo_df[t[3]], zen_rows[t[1]][FirstDate][1], date_tolerance)
                    => (HasRecord(t[1], t[2], t[3]) <=> (lo <= v /\ v <= hi))

Day(ticks) == ticks \div TicksPerDay

\* C2 (as stated): the date window is inclusive at day granularity: a bank
\* transaction that passes the amount filter yields a record exactly when its
\* calendar day is at most date_tolerance days from the row's day, whatever
\* its time of day.
DateWindowByDay ==
    Matched =>
        \A t \in Candidates :
            LET d  == Day(zen_rows[t[1]][FirstDate][1])
                tx == credo_df[t[3]]
            IN  (tx.operationDateTime # <<>>
                 /\ AmountMatch(tx, Signed(t[1], t[2]), amount_tolerance))
                    => (HasRecord(t[1], t[2], t[3])
                          <=> (/\ d - date_tolerance <= Day(tx.operationDateTime[1])
                               /\ Day(tx.operationDateTime[1]) <= d + date_tolerance))

\* C3 (as stated): in every record the external amount is strictly negative
\* under an outcome label and strictly positive under an income label.
SignNormalization ==
    Matched =>
        \A rec \in Range(result_df) :
            /\ "outcome" \in Keywords(rec.zen_amount_column) => rec.zen_amount < 0
            /\ "income" \in Keywords(rec.zen_amount_column) => rec.zen_amount > 0

PairsFrom(id) == {p \in Range(transfers_df) : p.from_transaction_id = id}

PairsTo(id) == {p \in Range(transfers_df) : p.to_transaction_id = id}

\* C7 (as stated): a record is marked a currency transfer exactly when its
\* bank transaction is the from or the to leg of a pair; as a from leg it has
\* type from and carries the to leg and the rate, as a to leg type to and the
\* from leg and the rate; a feed without exchange-marked rows marks none.
TransferAnnotation ==
    Matched =>
        /\ \A rec \in Range(result_df) :
              LET id == rec.credo_transaction_id
                  x  == rec.transfer
              IN  /\ x.is_currency_transfer <=> (PairsFrom(id) \cup PairsTo(id) # {})
                  /\ \A p \in PairsFrom(id) :
                        /\ x.transfer_type = <<"from">>
                        /\ x.transfer_pair_currency = <<p.to_currency>>
                        /\ x.transfer_pair_amount = <<p.to_amount>>
                        /\ x.transfer_pair_transaction_id = <<p.to_transaction_id>>
                        /\ x.exchange_rate = <<p.exchange_rate>>
                  /\ \A p \in PairsTo(id) :
                        /\ x.transfer_type = <<"to">>
                        /\ x.transfer_pair_currency = <<p.from_currency>>
                        /\ x.transfer_pair_amount = <<p.from_amount>>
                        /\ x.transfer_pair_transaction_id = <<p.from_transaction_id>>
                        /\ x.exchange_rate = <<p.exchange_rate>>
        /\ (\A i \in 1..Len(credo_df) : credo_df[i].description # "Currency exchange")
              => /\ transfers_df = <<>>
                 /\ \A rec \in Range(result_df) : ~rec.transfer.is_currency_transfer

\* The (row, column, bank transaction) triples that match.
Hits ==
    {t \in Candidates :
        /\ DateMatch(credo_df[t[3]], zen_rows[t[1]][FirstDate][1], date_tolerance)
        /\ AmountMatch(credo_df[t[3]], Signed(t[1], t[2]), amount_tolerance)}

LexLess(u, v) ==
    \E n \in 1..Len(u) : u[n] < v[n] /\ \A m \in 1..(n - 1) : u[m] = v[m]

\* Row, then column as declared, then position in the bank feed.
DeclaredKey(t) == <<t[1], t[2], t[3]>>

\* Row, then income-labelled columns before the others, then column as
\* declared, then position in the bank feed.
IncomeFirstKey(t) ==
    <<t[1], IF "income" \in Keywords(zen_columns[t[2]]) THEN 0 ELSE 1, t[2], t[3]>>

\* C8 (as stated): the records are ordered by external row, then by the
\* declaration order of the amount columns, then by position in the bank feed.
OrderedByDeclaration ==
    Matched =>
        /\ Len(result_df) = Cardinality(Hits)
        /\ \A t \in Hits :
              RecordIs(result_df[1 + Cardinality({u \in Hits :
                                    LexLess(DeclaredKey(u), DeclaredKey(t))})],
                       t[1], t[2], t[3])

\* C8 (amended): the records are ordered by external row, then, within one
\* row, income-labelled columns in declaration order before outcome-labelled
\* columns in declaration order (generic columns, which are used only when
\* there is neither, in declaration order), then by position in the bank feed.
OrderedIncomeFirst ==
    Matched =>
        /\ Len(result_df) = Cardinality(Hits)
        /\ \A t \in Hits :
              RecordIs(result_df[1 + Cardinality({u \in Hits :
                                    LexLess(IncomeFirstKey(u), IncomeFirstKey(t))})],
                       t[1], t[2], t[3])

\* The outcome column is declared before the income column, two rows match,
\* and the first row's income record precedes its outcome record.
OrderedIncomeFirstWitness ==
    /\ pc = "done"
    /\ zen_columns = <<"date", "outcome", "income">>
    /\ Len(zen_rows) = 2
    /\ zen_rows[1] # zen_rows[2]
    /\ Len(result_df) >= 3
    /\ result_df[1].zen_row = zen_rows[1]
    /\ result_df[1].zen_amount_column = "income"
    /\ result_df[2].zen_row = zen_rows[1]
    /\ result_df[2].zen_amount_column = "outcome"
    /\ result_df[Len(result_df)].zen_row = zen_rows[2]

NoDateHeader == \A i \in 1..Len(zen_columns) : "date" \notin Keywords(zen_columns[i])

NoAmountHeader ==
    \A i \in 1..Len(zen_columns) :
        LET kw == Keywords(zen_columns[i])
        IN  /\ ~(kw \cap {"income", "outcome"} # {} /\ "currency" \notin kw)
            /\ kw \cap {"amount", "sum"} = {}

\* C9: without a date column or without an amount column match_transactions
\* exits with an error and emits no record, and only then; with both it
\* returns a result, which may be empty.
ConfigurationError ==
    pc \in {"done", "exit"} =>
        /\ pc = "exit" <=> (NoDateHeader \/ NoAmountHeader)
        /\ pc = "exit" => result_df = <<>>

\* The run exits on a ledger that has an amount column and a row, but no date
\* column.
ConfigurationErrorWitness ==
    /\ pc = "exit"
    /\ zen_columns = <<"comment", "amount">>
    /\ zen_rows = << <<Null, Some(9000)>> >>

\* The rows that have a date and at least one non-zero amount.
KeptRows ==
    SelectSeq(zen_rows, LAMBDA row :
        /\ row[FirstDate] # <<>>
        /\ \E c \in Slots : row[c] # <<>> /\ row[c] # <<0>>)

\* The bank transactions with a parsed time.
KeptBank == SelectSeq(credo_df, LAMBDA tx : tx.operationDateTime # <<>>)

\* C10: rows without a date, null or zero slots and bank transactions with an
\* unparseable time raise no error and yield no record, and the records are
\* those of the inputs without the skipped rows and bank transactions.
RowSkipIsolation ==
    pc \in {"done", "exit"} =>
        /\ pc = "done"
        /\ \A rec \in Range(result_df) :
              /\ rec.zen_row[FirstDate] # <<>>
              /\ rec.credo_date # <<>>
              /\ \E c \in Slots :
                    /\ zen_columns[c] = rec.zen_amount_column
                    /\ rec.zen_row[c] # <<>>
                    /\ rec.zen_row[c] # <<0>>
        /\ result_df = match_transactions(zen_columns, KeptRows, KeptBank, transfers_df,
                                          date_tolerance, amount_tolerance).result

\* A row without a date, then a row with a zero outcome and an income of 50,
\* against an undated bank transaction and one that matches: one record.
RowSkipIsolationWitness ==
    /\ pc = "done"
    /\ zen_columns = <<"date", "outcome", "income">>
    /\ Len(zen_rows) = 2
    /\ zen_rows[1][1] = <<>>
    /\ zen_rows[2] = << <<0>>, <<0>>, <<5000>> >>
    /\ credo_df[1].operationDateTime = <<>>
    /\ credo_df[2].operationDateTime # <<>>
    /\ Len(result_df) = 1
    /\ result_df[1].zen_amount_column = "income"
    /\ result_df[1].credo_transaction_id = 2

=============================================================================
